---- MODULE Spec2Model ----
(***************************************************************************)
(* Touch controller for a Govee light wall: the MPR121 polling driver      *)
(* (lib/MPR121), the debounced touch handler with its time-of-day guard    *)
(* and scene rotation (main program), and the Govee API wrapper seen as a  *)
(* request that later resolves or rejects.                                 *)
(*                                                                         *)
(* Time is Date.now() in milliseconds.  The event loop is single-threaded: *)
(* every action below is one callback run to completion (up to its first   *)
(* await).  Timers fire at their due time, before the clock moves on.      *)
(***************************************************************************)
EXTENDS Integers, Sequences, FiniteSets, TLC

(***************************************************************************)
(* Program constants                                                       *)
(***************************************************************************)
TOUCH_DEBOUNCE_MS == 1000
ALLOWED_START_HOUR == 8
ALLOWED_END_HOUR == 20
DefaultInterval == 100
NumPins == 12
TurnOffPin == 9
TouchMask == 4096      \* t & 0x0FFF keeps t modulo 2^12
WordSize == 65536      \* readWord returns a 16-bit word

(***************************************************************************)
(* Bounds of the model                                                     *)
(***************************************************************************)
StartTime == 1000      \* Date.now() when the process starts (>= the window)
MaxTicks == 13         \* polling intervals explored by Spec
GuardTicks == 2        \* polling intervals explored by SpecGuard
MaxTouched == 1        \* pins touched at the same time in one sample
MaxRandomIndex == 1    \* Math.random() draws explored for the random scene
RotateTicks == 21      \* polling intervals explored by SpecRotate
LifeTicks == 3         \* polling intervals explored by SpecLife
TableTicks == 24       \* polling intervals explored by SpecTables
LiveTicks == 11        \* polling intervals with touches explored by SpecLive
PairTicks == 12        \* polling intervals explored by SpecPair

Pins == 0 .. (NumPins - 1)
Hours == 0 .. 23

SCENE_COLLECTIONS ==
    [ NIGHT   |-> << "Sunset", "Moon", "Moonlight", "Mountain Forest", "Fire",
                     "Forest Fireflies", "Space", "Camping", "Starry Night" >>,
      FUN     |-> << "Groovy", "Shiny Rainbow", "Bubble", "Spider", "Music Note",
                     "Love Heart", "UFO", "Lollipop", "Carousel", "Maze" >>,
      HOLIDAY |-> << "Snowman", "Christmas Tree", "Santa Claus", "Sled",
                     "Christmas Gift", "Christmas Wreath" >>,
      NATURE  |-> << "Sea Island", "Starfish", "Wave", "Rainbow", "Mushroom",
                     "Flamingo Couple", "Waterfall" >>,
      ARTSY   |-> << "Sunflowers", "Bonsai", "The Scream", "Mondrian", "Graffiti",
                     "Rhomb", "Dot Eater" >> ]

RotationPins == 4 .. 8

PIN_TO_COLLECTION ==
    [ p \in RotationPins |->
        CASE p = 4 -> "NIGHT"
          [] p = 5 -> "FUN"
          [] p = 6 -> "HOLIDAY"
          [] p = 7 -> "NATURE"
          [] p = 8 -> "ARTSY" ]

\* Object.keys(SCENES): the scene table of ./scenes, one entry per scene name.
AllSceneNames ==
    SCENE_COLLECTIONS.NIGHT \o SCENE_COLLECTIONS.FUN \o SCENE_COLLECTIONS.HOLIDAY
        \o SCENE_COLLECTIONS.NATURE \o SCENE_COLLECTIONS.ARTSY

\* The scene table of ./scenes: a numeric scene id for each scene name.
SceneTable ==
    [ n \in { AllSceneNames[i] : i \in 1 .. Len(AllSceneNames) } |->
        1000 + CHOOSE i \in 1 .. Len(AllSceneNames) : AllSceneNames[i] = n ]

\* SCENES[name]: undefined (falsy, here 0) when the table has no such name.
SCENES(name) == IF name \in DOMAIN SceneTable THEN SceneTable[name] ELSE 0

VARIABLES
    now,                \* Date.now()
    ticks,              \* polling intervals elapsed
    pollDue,            \* the setInterval callback of this instant has not run yet
    state,              \* MPR121.state: per-pin touched flag
    sample,             \* the bitmask the last touched() read resolved with
    emitted,            \* events emitted by the last step << [name, pin, value] >>
    lastRun,            \* debounce closure: time of the last execution
    timeout,            \* debounce closure: the pending setTimeout
    collectionIndices,  \* rotation cursor of pins 4..8
    inflight,           \* handleTouch executions awaiting govee.controlDevice
    firstSuppressed,    \* pin of the first call suppressed since the last execution
    called,             \* calls of the debounced handler made by the last step
    executed,           \* handleTouch executions started by the last step
    posted,             \* capabilities posted to the Govee API by the last step
    logged,             \* console lines written by the last step
    lastFire,           \* per pin, the time handleTouch last executed for it (earlier steps)
    lastCall,           \* the latest call of the debounced handler (earlier steps)
    settled,            \* controlDevice calls that resolved or rejected in the last step
    succeeded,          \* per rotation pin, the scene commands the API accepted so far
    prior,              \* the latest outcome on a rotation pin: blocked, rejected or resolved
    phase,              \* the constructor's promise chain: init, reset, configure, started, failed
    ready,              \* MPR121.ready
    timer,              \* MPR121.timer: the polling interval is set
    alive,              \* the process has neither exited nor crashed
    unhandled,          \* the last step left a rejected promise that nothing handles
    stopRequested,      \* stopPolling() has been called
    thresholds,         \* the thresholds configure() passes to setThresholds
    pinToCollection,    \* the PIN_TO_COLLECTION table the program was started with
    sceneCollections,   \* the SCENE_COLLECTIONS table the program was started with
    sceneTable,         \* the SCENES table loaded from ./scenes
    history,            \* every execution of handleTouch so far, with what it posted
    hung,               \* sampling reads whose promise is still pending
    unguarded           \* the controller of src/index.js, fed the same events

vars == << now, ticks, pollDue, state, sample, emitted, lastRun, timeout,
           collectionIndices, inflight, firstSuppressed, called, executed, posted, logged, lastFire, lastCall,
           settled, succeeded, prior, phase, ready, timer, alive, unhandled, stopRequested,
           thresholds, pinToCollection, sceneCollections, sceneTable, history, hung, unguarded >>

NoTimeout == [armed |-> FALSE, due |-> 0, pin |-> 0]
Never == 0 - 1
NoCall == [pin |-> Never, at |-> Never]
NoPrior == [pin |-> Never, kind |-> "none", index |-> 0]

(***************************************************************************)
(* MPR121 driver                                                           *)
(***************************************************************************)
Pow2(n) == IF n = 0 THEN 1 ELSE 2 ^ n

\* touched(): readWord(TOUCHSTATUS).then(t => t & 0x0FFF)
touched(word) == word % TouchMask

\* Mutant of current: the shift is off by one, 1 << (i + 1).
currentShifted(mask, i) == ((mask \div Pow2(i + 1)) % 2) * Pow2(i + 1) > 0

\* const current = (touched & (1 << i)) > 0
current(mask, i) == ((mask \div Pow2(i)) % 2) * Pow2(i) > 0

Event(name, pin, value) == [name |-> name, pin |-> pin, value |-> value]

\* Mutant of updateStateFrom: the pins are visited from 11 down to 0.
RECURSIVE updateStateDown(_, _, _)
updateStateDown(i, mask, acc) ==
    IF i >= NumPins THEN acc
    ELSE LET pin == NumPins - 1 - i
             previous == acc.state[pin]
             cur == current(mask, pin)
         IN  IF previous = cur
             THEN updateStateDown(i + 1, mask, acc)
             ELSE updateStateDown(i + 1, mask,
                    [ state   |-> [acc.state EXCEPT ![pin] = cur],
                      emitted |-> acc.emitted
                                    \o << Event(IF cur THEN "touch" ELSE "release", pin, cur),
                                          Event("pin", pin, cur) >> ])

\* this.state.forEach((previous, i) => ...) from index i on; acc = [state, emitted].
RECURSIVE updateStateFrom(_, _, _)
updateStateFrom(i, mask, acc) ==
    IF i >= NumPins THEN acc
    ELSE LET previous == acc.state[i]
             cur == current(mask, i)
         IN  IF previous = cur
             THEN updateStateFrom(i + 1, mask, acc)
             ELSE updateStateFrom(i + 1, mask,
                    [ state   |-> [acc.state EXCEPT ![i] = cur],
                      emitted |-> acc.emitted
                                    \o << Event(IF cur THEN "touch" ELSE "release", i, cur),
                                          Event("pin", i, cur) >> ])

\* Mutant of updateState: the events are emitted but the state is not stored.
updateStateNoStore(st, mask) ==
    [updateStateFrom(0, mask, [state |-> st, emitted |-> << >>]) EXCEPT !.state = st]

updateState(st, mask) == updateStateFrom(0, mask, [state |-> st, emitted |-> << >>])

\* isTouched(pin)
isTouched(st, isReady, pin) ==
    IF ~isReady THEN FALSE
    ELSE IF pin < 0 \/ pin >= NumPins THEN FALSE
    ELSE st[pin]

\* setThresholds(touch, release) rejects a threshold outside 0..255 and
\* otherwise writes the 26 threshold registers.
setThresholds(touch, release) ==
    IF touch < 0 \/ touch > 255 THEN "rejected"
    ELSE IF release < 0 \/ release > 255 THEN "rejected"
    ELSE "written"

\* startPolling(): the value of this.timer it leaves.  Called before the
\* sensor is ready it only registers itself for 'ready'; with no interval it
\* returns; otherwise it sets the interval.
startPolling(isReady, interval, tmr) ==
    IF ~isReady THEN tmr
    ELSE IF interval = 0 THEN tmr
    ELSE TRUE

\* stopPolling(): the value of this.timer it leaves.  With no timer set it
\* returns at once; otherwise it clears the interval.
stopPolling(tmr) == IF ~tmr THEN tmr ELSE FALSE

(***************************************************************************)
(* Main program: time guard, handleTouch, debounce                         *)
(***************************************************************************)
\* Mutant of isAllowedTime: the end hour is included.
isAllowedTimeInclusive(currentHour) ==
    currentHour >= ALLOWED_START_HOUR /\ currentHour <= ALLOWED_END_HOUR

\* Mutant of isAllowedTime: || in place of &&.
isAllowedTimeEither(currentHour) ==
    currentHour >= ALLOWED_START_HOUR \/ currentHour < ALLOWED_END_HOUR

\* Mutant of isAllowedTime: the start hour is excluded.
isAllowedTimeLate(currentHour) ==
    currentHour > ALLOWED_START_HOUR /\ currentHour < ALLOWED_END_HOUR

isAllowedTime(currentHour) ==
    currentHour >= ALLOWED_START_HOUR /\ currentHour < ALLOWED_END_HOUR

\* Mutant of canControlDevice: no time guard, as in the unguarded index.js.
canControlDeviceUnguarded(pin, currentHour) == TRUE

\* const isTurnOff = pin === 9; const canControlDevice = isTurnOff || isAllowedTime()
canControlDevice(pin, currentHour) == pin = TurnOffPin \/ isAllowedTime(currentHour)

Capability(type, instance, value) == [type |-> type, instance |-> instance, value |-> value]

\* SCENES[name] in the table the program loaded: undefined (falsy, here 0)
\* when the table has no such name.
sceneIdOf(c, name) == IF name \in DOMAIN c.sceneTable THEN c.sceneTable[name] ELSE 0

\* Object.keys(SCENES)
allSceneNames(c) == SelectSeq(AllSceneNames, LAMBDA n : n \in DOMAIN c.sceneTable)

\* (currentIndex + 1) % scenes.length
nextIndex(currentIndex, len) == (currentIndex + 1) % len

\* await govee.controlDevice(capability): the request is posted and the
\* execution is suspended; okLog is what it prints when the call resolves.
Await(c, pin, capability, okLog, currentIndex) ==
    [c EXCEPT !.posted = Append(@, capability),
              !.inflight = Append(@, [pin |-> pin, capability |-> capability,
                                      okLog |-> okLog, currentIndex |-> currentIndex])]

ConsoleLog(c, line) == [c EXCEPT !.logged = Append(@, line)]

IgnoredLog(pin) ==
    CASE pin = 0 -> "Light turn on request ignored - outside allowed time period"
      [] pin = 1 -> "Random scene request ignored - outside allowed time period"
      [] pin \in {2, 3} -> "Brightness change request ignored - outside allowed time period"
      [] OTHER -> "Scene change request ignored - outside allowed time period"

\* case 0: turn on
caseTurnOn(c, pin, can) ==
    IF can
    THEN Await(c, pin, Capability("devices.capabilities.on_off", "powerSwitch", 1),
               "Light turned on", 0)
    ELSE ConsoleLog(c, IgnoredLog(pin))

\* case 1: random scene; rnd is Math.floor(Math.random() * allSceneNames.length)
caseRandomScene(c, pin, can, rnd) ==
    IF can
    THEN LET randomIndex == rnd % Len(allSceneNames(c))
             randomSceneName == allSceneNames(c)[randomIndex + 1]
         IN  Await(c, pin,
                   Capability("devices.capabilities.dynamic_scene", "lightScene",
                              sceneIdOf(c, randomSceneName)),
                   "Random scene set to: " \o randomSceneName, 0)
    ELSE ConsoleLog(c, IgnoredLog(pin))

\* Mutant of caseTurnOff: guarded like the other cases.
caseTurnOffGuarded(c, pin, h) ==
    IF isAllowedTime(h)
    THEN Await(c, pin, Capability("devices.capabilities.on_off", "powerSwitch", 0),
               "Light turned off", 0)
    ELSE ConsoleLog(c, "Light turn off request ignored - outside allowed time period")

\* case 9: turn off - always allowed
caseTurnOff(c, pin, h) ==
    Await(c, pin, Capability("devices.capabilities.on_off", "powerSwitch", 0),
          "Light turned off", 0)

\* cases 2 and 3: brightness 100% (value 99) and 0% (value 1)
caseBrightness(c, pin, can) ==
    IF can
    THEN Await(c, pin,
               Capability("devices.capabilities.range", "brightness",
                          IF pin = 2 THEN 99 ELSE 1),
               IF pin = 2 THEN "Brightness set to 100%" ELSE "Brightness set to 0%", 0)
    ELSE ConsoleLog(c, IgnoredLog(pin))

\* Mutant of caseRotation: the cursor advances before the guard is consulted.
caseRotationAdvancing(c, pin, can) ==
    LET collection == c.pinToCollection[pin]
        scenes == c.sceneCollections[collection]
        currentIndex == c.collectionIndices[pin]
        sceneName == scenes[currentIndex + 1]
        sceneId == sceneIdOf(c, sceneName)
        d == [c EXCEPT !.collectionIndices[pin] = nextIndex(currentIndex, Len(scenes))]
    IN  IF collection \notin DOMAIN c.sceneCollections
        THEN ConsoleLog(c, "Error controlling light:")
        ELSE
        IF sceneId # 0
        THEN IF can
             THEN Await(d, pin,
                        Capability("devices.capabilities.dynamic_scene", "lightScene",
                                   sceneId),
                        "Scene set to " \o sceneName \o " (" \o collection \o " collection)",
                        currentIndex)
             ELSE ConsoleLog(d, IgnoredLog(pin))
        ELSE c

\* cases 4..8: the scene at the cursor of the pin's collection
caseRotation(c, pin, can) ==
    LET collection == c.pinToCollection[pin]
        scenes == c.sceneCollections[collection]
        currentIndex == c.collectionIndices[pin]
        sceneName == scenes[currentIndex + 1]
        sceneId == sceneIdOf(c, sceneName)
    IN  IF collection \notin DOMAIN c.sceneCollections
        THEN \* scenes is undefined: scenes[currentIndex] throws, the catch logs
             ConsoleLog(c, "Error controlling light:")
        ELSE
        IF sceneId # 0
        THEN IF can
             THEN Await(c, pin,
                        Capability("devices.capabilities.dynamic_scene", "lightScene",
                                   sceneId),
                        "Scene set to " \o sceneName \o " (" \o collection \o " collection)",
                        currentIndex)
             ELSE ConsoleLog(c, IgnoredLog(pin))
        ELSE c

\* Mutant of handleTouchBody: a default case that reports the unmapped pin.
handleTouchBodyDefault(c, pin, h, rnd) ==
    LET can == canControlDevice(pin, h)
    IN  CASE pin = 0 -> caseTurnOn(c, pin, can)
          [] pin = 1 -> caseRandomScene(c, pin, can, rnd)
          [] pin = 9 -> caseTurnOff(c, pin, h)
          [] pin \in {2, 3} -> caseBrightness(c, pin, can)
          [] pin \in RotationPins -> caseRotation(c, pin, can)
          [] OTHER -> ConsoleLog(c, "Error controlling light:")

\* The synchronous part of handleTouch(pin): the switch up to its await.
\* c is the controller state, h the wall-clock hour, rnd the random draw.
handleTouchBody(c, pin, h, rnd) ==
    LET can == canControlDevice(pin, h)
    IN  CASE pin = 0 -> caseTurnOn(c, pin, can)
          [] pin = 1 -> caseRandomScene(c, pin, can, rnd)
          [] pin = 9 -> caseTurnOff(c, pin, h)
          [] pin \in {2, 3} -> caseBrightness(c, pin, can)
          [] pin \in RotationPins -> caseRotation(c, pin, can)
          [] OTHER -> c

\* func.apply(this, args): one execution of handleTouch, at time t.
handleTouch(c, pin, t, h, rnd, via) ==
    LET d == handleTouchBody(c, pin, h, rnd)
    IN  [d EXCEPT !.executed = Append(@, [pin |-> pin, at |-> t, via |-> via, hour |-> h,
                                          can |-> canControlDevice(pin, h),
                                          first |-> c.firstSuppressed]),
                  !.firstSuppressed = Never]

\* Mutant of enoughTimePassed: > in place of >=.
enoughTimeStrict(t, last) == t - last > TOUCH_DEBOUNCE_MS

\* if (now - lastRun >= wait)
enoughTimePassed(t, last) == t - last >= TOUCH_DEBOUNCE_MS

\* Mutant of timerDue: the delay is what is left of the window, wait - (t - last).
timerDueFromLastRun(t, last) == last + TOUCH_DEBOUNCE_MS

\* setTimeout(cb, wait) called at time t, with lastRun = last, is due at t + wait
timerDue(t, last) == t + TOUCH_DEBOUNCE_MS

\* Mutant of timerArgs: a pending timer keeps the arguments of the first call.
timerArgsFirst(c, pin) == IF c.timeout.armed THEN c.timeout.pin ELSE pin

\* the arguments the setTimeout callback closes over: those of this call
timerArgs(c, pin) == pin

\* Mutant of stampRun: lastRun is recorded only when a command was sent.
stampRunIfSent(c, t) == IF c.posted # << >> THEN [c EXCEPT !.lastRun = t] ELSE c

\* Mutant of stampRun: lastRun is not recorded.
stampRunNot(c, t) == c

\* lastRun = now (immediate branch), lastRun = Date.now() (deferred branch)
stampRun(c, t) == [c EXCEPT !.lastRun = t]

\* Mutant of recordOf: one lastRun per pin.
recordPerPin(c, pin) ==
    [lastRun |-> IF lastFire[pin] = Never THEN 0 ELSE lastFire[pin], timeout |-> c.timeout]

\* The debounce record a call of the debounced handler works on: one closure
\* (lastRun, timeout) wraps handleTouch, whatever the pin.
recordOf(c, pin) == [lastRun |-> c.lastRun, timeout |-> c.timeout]

\* executedFunction(...args): the debounced handler, called at time t.
executedFunction(c, pin, t, h, rnd) ==
    LET rec == recordOf(c, pin)
        d == [c EXCEPT !.called = Append(@, [pin |-> pin, at |-> t,
                                             lastRun |-> rec.lastRun])]
    IN  IF enoughTimePassed(t, rec.lastRun)
        THEN [stampRun(handleTouch(d, pin, t, h, rnd, "immediate"), t)
                EXCEPT !.timeout = NoTimeout]
        ELSE [d EXCEPT !.timeout = [armed |-> TRUE, due |-> timerDue(t, rec.lastRun),
                                    pin |-> timerArgs(c, pin)],
                       !.firstSuppressed = IF @ = Never THEN pin ELSE @]

\* Mutant of timeoutCallback: the callback clears the timer and runs nothing.
timeoutCallbackDrop(c, t, h, rnd) == [c EXCEPT !.timeout = NoTimeout]

\* The setTimeout callback of the debounced handler, run at time t.
timeoutCallback(c, t, h, rnd) ==
    IF enoughTimePassed(t, c.lastRun)
    THEN stampRun(handleTouch([c EXCEPT !.timeout = NoTimeout], c.timeout.pin, t, h, rnd,
                              "deferred"), t)
    ELSE [c EXCEPT !.timeout = NoTimeout]

\* touchSensor.on('touch', debouncedHandleTouch): emit() calls the listener
\* synchronously for each 'touch' event, in emission order.
RECURSIVE deliver(_, _, _, _, _)
deliver(c, events, t, h, rnd) ==
    IF events = << >> THEN c
    ELSE LET e == Head(events)
             d == IF e.name = "touch" THEN executedFunction(c, e.pin, t, h, rnd) ELSE c
         IN  deliver(d, Tail(events), t, h, rnd)

(***************************************************************************)
(* The unguarded controller of src/index.js                                *)
(***************************************************************************)
\* cases 4..8 of src/index.js: no time guard around the request
caseRotationU(c, pin) ==
    LET collection == c.pinToCollection[pin]
        scenes == c.sceneCollections[collection]
        currentIndex == c.collectionIndices[pin]
        sceneName == scenes[currentIndex + 1]
        sceneId == sceneIdOf(c, sceneName)
    IN  IF collection \notin DOMAIN c.sceneCollections
        THEN ConsoleLog(c, "Error controlling light:")
        ELSE
        IF sceneId # 0
        THEN Await(c, pin,
                   Capability("devices.capabilities.dynamic_scene", "lightScene", sceneId),
                   "Scene set to " \o sceneName \o " (" \o collection \o " collection)",
                   currentIndex)
        ELSE c

\* The synchronous part of handleTouch(pin) of src/index.js: cases 0, 9, 2, 3
\* and 4..8; there is no case 1.
handleTouchBodyU(c, pin) ==
    CASE pin = 0 ->
           Await(c, pin, Capability("devices.capabilities.on_off", "powerSwitch", 1),
                 "Light turned on", 0)
      [] pin = 9 ->
           Await(c, pin, Capability("devices.capabilities.on_off", "powerSwitch", 0),
                 "Light turned off", 0)
      [] pin = 2 ->
           Await(c, pin, Capability("devices.capabilities.range", "brightness", 99),
                 "Brightness set to 100%", 0)
      [] pin = 3 ->
           Await(c, pin, Capability("devices.capabilities.range", "brightness", 1),
                 "Brightness set to 0%", 0)
      [] pin \in RotationPins -> caseRotationU(c, pin)
      [] OTHER -> c

\* func.apply(this, args) in src/index.js: one execution of its handleTouch.
handleTouchU(c, pin, t, via) ==
    LET d == handleTouchBodyU(c, pin)
    IN  [d EXCEPT !.executed = Append(@, [pin |-> pin, at |-> t, via |-> via]),
                  !.firstSuppressed = Never]

\* executedFunction(...args) of src/index.js, called at time t.
executedFunctionU(c, pin, t) ==
    LET d == [c EXCEPT !.called = Append(@, [pin |-> pin, at |-> t, lastRun |-> c.lastRun])]
    IN  IF t - c.lastRun >= TOUCH_DEBOUNCE_MS
        THEN [handleTouchU(d, pin, t, "immediate")
                EXCEPT !.lastRun = t, !.timeout = NoTimeout]
        ELSE [d EXCEPT !.timeout = [armed |-> TRUE, due |-> t + TOUCH_DEBOUNCE_MS,
                                    pin |-> pin],
                       !.firstSuppressed = IF @ = Never THEN pin ELSE @]

\* The setTimeout callback of the debounced handler of src/index.js, at time t.
timeoutCallbackU(c, t) ==
    IF ~(c.timeout.armed /\ c.timeout.due <= t) THEN c
    ELSE IF t - c.lastRun >= TOUCH_DEBOUNCE_MS
         THEN [handleTouchU([c EXCEPT !.timeout = NoTimeout], c.timeout.pin, t, "deferred")
                 EXCEPT !.lastRun = t]
         ELSE [c EXCEPT !.timeout = NoTimeout]

\* touchSensor.on('touch', debouncedHandleTouch) of src/index.js.
RECURSIVE deliverU(_, _, _)
deliverU(c, events, t) ==
    IF events = << >> THEN c
    ELSE LET e == Head(events)
             d == IF e.name = "touch" THEN executedFunctionU(c, e.pin, t) ELSE c
         IN  deliverU(d, Tail(events), t)

\* The k-th pending request of src/index.js is answered: its handleTouch
\* resumes after the await, logs and, in cases 4..8, writes the cursor.
resolveU(c, k) ==
    IF k \notin 1 .. Len(c.inflight) THEN c
    ELSE LET r == c.inflight[k]
             d == [c EXCEPT !.inflight = SubSeq(@, 1, k - 1) \o SubSeq(@, k + 1, Len(@)),
                            !.logged = << r.okLog >>,
                            !.settled = << [pin |-> r.pin, index |-> r.currentIndex,
                                            ok |-> TRUE] >>]
         IN  IF r.pin \in RotationPins
             THEN [d EXCEPT !.collectionIndices[r.pin] =
                      nextIndex(r.currentIndex,
                                Len(c.sceneCollections[c.pinToCollection[r.pin]]))]
             ELSE d

\* The k-th pending request of src/index.js fails: controlDevice logs and
\* rethrows, the catch of handleTouch logs.
rejectU(c, k) ==
    IF k \notin 1 .. Len(c.inflight) THEN c
    ELSE [c EXCEPT !.inflight = SubSeq(@, 1, k - 1) \o SubSeq(@, k + 1, Len(@)),
                   !.logged = << "Error controlling device:", "Error controlling light:" >>,
                   !.settled = << [pin |-> c.inflight[k].pin,
                                   index |-> c.inflight[k].currentIndex, ok |-> FALSE] >>]

\* The controller state read by a callback; its per-step outputs start empty.
Controller ==
    [ lastRun |-> lastRun, timeout |-> timeout, collectionIndices |-> collectionIndices,
      inflight |-> inflight, firstSuppressed |-> firstSuppressed,
      pinToCollection |-> pinToCollection,
      sceneCollections |-> sceneCollections, sceneTable |-> sceneTable,
      called |-> << >>, executed |-> << >>, posted |-> << >>, logged |-> << >>,
      settled |-> << >> ]

\* The latest outcome on a rotation pin after a step that left d: a request
\* that settled, or an execution of handleTouch that the time guard blocked
\* (with the cursor it found); a dispatch that is still awaited is no outcome.
Outcome(d) ==
    IF d.settled # << >>
    THEN LET r == d.settled[Len(d.settled)]
         IN  IF r.pin \in RotationPins
             THEN [pin |-> r.pin, kind |-> IF r.ok THEN "resolved" ELSE "rejected",
                   index |-> r.index]
             ELSE prior
    ELSE LET blocked == { i \in DOMAIN d.executed :
                            d.executed[i].pin \in RotationPins /\ ~d.executed[i].can }
         IN  IF blocked = {} THEN prior
             ELSE LET i == CHOOSE j \in blocked : \A k \in blocked : k <= j
                  IN  [pin |-> d.executed[i].pin, kind |-> "blocked",
                       index |-> collectionIndices[d.executed[i].pin]]

\* The state of the unguarded controller read by a callback of src/index.js;
\* its per-step outputs start empty.
Unguarded ==
    [unguarded EXCEPT !.called = << >>, !.executed = << >>, !.posted = << >>,
                      !.logged = << >>, !.settled = << >>]

\* Write the states of both controllers back to the variables.
CommitBoth(c, u) ==
    \E d \in {c} :
        /\ unguarded' = u
        /\ lastRun' = d.lastRun
        /\ timeout' = d.timeout
        /\ collectionIndices' = d.collectionIndices
        /\ inflight' = d.inflight
        /\ firstSuppressed' = d.firstSuppressed
        /\ called' = d.called
        /\ executed' = d.executed
        /\ posted' = d.posted
        /\ logged' = d.logged
        /\ lastFire' = [p \in Pins |->
                          LET of == { i \in DOMAIN executed : executed[i].pin = p }
                          IN  IF of = {} THEN lastFire[p]
                              ELSE executed[CHOOSE i \in of : \A j \in of : j <= i].at]
        /\ lastCall' = IF called = << >> THEN lastCall
                       ELSE [pin |-> called[Len(called)].pin, at |-> called[Len(called)].at]
        /\ settled' = d.settled
        /\ succeeded' = [p \in RotationPins |->
                           succeeded[p]
                             + Cardinality({ i \in DOMAIN d.settled :
                                               d.settled[i].ok /\ d.settled[i].pin = p })]
        /\ prior' = Outcome(d)
        /\ history' = history \o [i \in 1 .. Len(d.executed) |->
                                    [pin |-> d.executed[i].pin, at |-> d.executed[i].at,
                                     via |-> d.executed[i].via, sent |-> d.posted]]

\* Write a controller state back to the variables; the unguarded controller
\* runs no callback in this step.
Commit(c) == CommitBoth(c, Unguarded)

(***************************************************************************)
(* Inputs                                                                  *)
(***************************************************************************)
RECURSIVE BitCount(_)
BitCount(m) == IF m = 0 THEN 0 ELSE (m % 2) + BitCount(m \div 2)

RECURSIVE MaskOf(_)
MaskOf(S) == IF S = {} THEN 0
             ELSE LET p == CHOOSE q \in S : TRUE IN Pow2(p) + MaskOf(S \ {p})

\* 12-bit samples with at most MaxTouched of the pins P touched
Masks(P) == { MaskOf(S) : S \in { T \in SUBSET P : Cardinality(T) <= MaxTouched } }

\* the 16-bit words the sensor returns: the upper four bits are status bits,
\* not pins (0xF000: all of them set, no pin touched)
RawWords(P) == Masks(P) \cup { WordSize - TouchMask }

RandomDraws == 0 .. MaxRandomIndex

\* The pins touched, and the hours read, in the long runs of Spec.
SpecPins == {4, 9}
SpecHours == {12, 23}
SpecWords == RawWords(SpecPins)

\* The words read in the short runs of SpecGuard: no pin, any single pin, or
\* all twelve pins touched, and the status-only word.
GuardWords ==
    {0} \cup { Pow2(p) : p \in Pins } \cup { TouchMask - 1 } \cup { WordSize - TouchMask }

\* getHours() and Math.random() are read only by an execution of handleTouch
\* (the hour by every pin but 9, the random number by pin 1): the values a
\* call at time t with pins ps can read.
Reads(ps, t, H) ==
    IF ps # {} /\ enoughTimePassed(t, lastRun)
    THEN { << h, rnd >> : h \in H, rnd \in IF 1 \in ps THEN RandomDraws ELSE {0} }
    ELSE { << 0, 0 >> }

(***************************************************************************)
(* Initial state and actions                                               *)
(***************************************************************************)
\* The state after construction: new MPR121() has started its promise chain
\* and the main program has registered its listeners.
Init ==
    /\ now = StartTime
    /\ ticks = 0
    /\ pollDue = FALSE
    /\ state = [i \in Pins |-> FALSE]
    /\ sample = 0
    /\ emitted = << >>
    /\ lastRun = 0
    /\ timeout = NoTimeout
    /\ collectionIndices = [p \in RotationPins |-> 0]
    /\ inflight = << >>
    /\ firstSuppressed = Never
    /\ called = << >>
    /\ executed = << >>
    /\ posted = << >>
    /\ logged = << >>
    /\ lastFire = [p \in Pins |-> Never]
    /\ lastCall = NoCall
    /\ settled = << >>
    /\ succeeded = [p \in RotationPins |-> 0]
    /\ prior = NoPrior
    /\ phase = "init"
    /\ ready = FALSE
    /\ timer = FALSE
    /\ alive = TRUE
    /\ unhandled = FALSE
    /\ stopRequested = FALSE
    /\ thresholds = << 10, 8 >>
    /\ pinToCollection = PIN_TO_COLLECTION
    /\ sceneCollections = SCENE_COLLECTIONS
    /\ sceneTable = SceneTable
    /\ history = << >>
    /\ hung = 0
    /\ unguarded = Controller

\* What a step that is no failed read and no lifecycle step leaves alone.
Quiet ==
    /\ unhandled' = FALSE
    /\ UNCHANGED << phase, ready, timer, alive, stopRequested, thresholds, pinToCollection,
                    sceneCollections, sceneTable, hung >>

TimerOverdue == timeout.armed /\ timeout.due <= now

\* A lifecycle step runs no handler of the main program.
Idle ==
    /\ Commit(Controller)
    /\ UNCHANGED << now, ticks, state, sample, thresholds, pinToCollection,
                    sceneCollections, sceneTable, hung >>

\* init(): i2c.open calls back without an error.
InitDone ==
    /\ alive /\ phase = "init"
    /\ phase' = "reset"
    /\ emitted' = << >>
    /\ unhandled' = FALSE
    /\ Idle
    /\ UNCHANGED << pollDue, ready, timer, alive, stopRequested >>

\* reset(): soft reset written, 100 ms waited, electrodes stopped.
ResetDone ==
    /\ alive /\ phase = "reset"
    /\ phase' = "configure"
    /\ emitted' = << >>
    /\ unhandled' = FALSE
    /\ Idle
    /\ UNCHANGED << pollDue, ready, timer, alive, stopRequested >>

\* configure(): setThresholds and the register writes; on success ready is
\* set, 'ready' is emitted and the chain goes on to startPolling(); a
\* rejected setThresholds goes to the chain's catch, which emits 'error'.
Configure ==
    /\ alive /\ phase = "configure"
    /\ IF setThresholds(thresholds[1], thresholds[2]) = "written"
       THEN /\ ready' = TRUE
            /\ emitted' = << Event("ready", Never, FALSE) >>
            /\ timer' = startPolling(TRUE, DefaultInterval, timer)
            /\ phase' = "started"
       ELSE /\ emitted' = << Event("error", Never, FALSE) >>
            /\ phase' = "failed"
            /\ UNCHANGED << ready, timer >>
    /\ unhandled' = FALSE
    /\ Idle
    /\ UNCHANGED << pollDue, alive, stopRequested >>

\* An I2C operation of init, reset or configure fails: the chain's catch
\* emits 'error' and startPolling is never reached.
ChainReject ==
    /\ alive /\ phase \in {"init", "reset", "configure"}
    /\ phase' = "failed"
    /\ emitted' = << Event("error", Never, FALSE) >>
    /\ unhandled' = FALSE
    /\ Idle
    /\ UNCHANGED << pollDue, ready, timer, alive, stopRequested >>

\* A client calls stopPolling().  A cleared interval does not call back.
StopPolling ==
    /\ alive
    /\ stopRequested' = TRUE
    /\ timer' = stopPolling(timer)
    /\ pollDue' = (pollDue /\ ~timer)
    /\ emitted' = << >>
    /\ unhandled' = FALSE
    /\ Idle
    /\ UNCHANGED << phase, ready, alive >>

\* SIGINT: touchSensor.stopPolling(); process.exit(0).
Sigint ==
    /\ alive
    /\ stopRequested' = TRUE
    /\ timer' = stopPolling(timer)
    /\ pollDue' = (pollDue /\ ~timer)
    /\ alive' = FALSE
    /\ emitted' = << >>
    /\ unhandled' = FALSE
    /\ Idle
    /\ UNCHANGED << phase, ready >>

\* setInterval callback whose read fails: touched() rejects, so the promise
\* of .then(updateState) rejects too and nothing handles it.  updateState does
\* not run and no 'error' is emitted.  Depending on how the runtime treats an
\* unhandled rejection the process goes on (a warning) or is terminated.
ReadFail ==
    /\ alive
    /\ pollDue
    /\ pollDue' = FALSE
    /\ unhandled' = TRUE
    /\ alive' \in BOOLEAN
    /\ emitted' = << >>
    /\ Idle
    /\ UNCHANGED << phase, ready, timer, stopRequested >>

\* setInterval callback whose read never completes: the promise of touched()
\* stays pending, updateState does not run for this tick and nothing is emitted.
ReadHang ==
    /\ alive
    /\ pollDue
    /\ pollDue' = FALSE
    /\ hung' = hung + 1
    /\ emitted' = << >>
    /\ unhandled' = FALSE
    /\ Commit(Controller)
    /\ UNCHANGED << now, ticks, state, sample, phase, ready, timer, alive, stopRequested,
                    thresholds, pinToCollection, sceneCollections, sceneTable >>

\* Mutant of Advance: the interval waits for the reads and the dispatches of
\* earlier ticks before it calls back again.
AdvanceBlocking(maxTicks) ==
    /\ alive /\ phase = "started"
    /\ ~pollDue
    /\ ~TimerOverdue
    /\ hung = 0 /\ inflight = << >>
    /\ ticks < maxTicks
    /\ now' = now + DefaultInterval
    /\ ticks' = ticks + 1
    /\ pollDue' = timer
    /\ emitted' = << >>
    /\ Commit(Controller)
    /\ Quiet
    /\ UNCHANGED << state, sample >>

\* One polling interval elapses.  The clock starts with the end of startup.
Advance(maxTicks) ==
    /\ alive /\ phase = "started"
    /\ ~pollDue
    /\ ~TimerOverdue
    /\ ticks < maxTicks
    /\ now' = now + DefaultInterval
    /\ ticks' = ticks + 1
    /\ pollDue' = timer
    /\ emitted' = << >>
    /\ Commit(Controller)
    /\ Quiet
    /\ UNCHANGED << state, sample >>

\* setInterval callback: this.touched().then(this.updateState.bind(this)),
\* with the 'touch' listener of the main program.
PollTick(word, H) ==
    /\ alive
    /\ pollDue
    /\ Quiet
    /\ pollDue' = FALSE
    /\ \E u \in { updateState(state, touched(word)) } :
          LET ps == { u.emitted[i].pin :
                        i \in { j \in 1 .. Len(u.emitted) : u.emitted[j].name = "touch" } }
          IN  /\ sample' = touched(word)
              /\ state' = u.state
              /\ emitted' = u.emitted
              /\ \E r \in Reads(ps, now, H) :
                    Commit(deliver(Controller, u.emitted, now, r[1], r[2]))
    /\ UNCHANGED << now, ticks >>

\* The debounce timer fires.
TimerFire(H) ==
    /\ alive
    /\ TimerOverdue
    /\ Quiet
    /\ emitted' = << >>
    /\ \E r \in Reads({timeout.pin}, now, H) :
          Commit(timeoutCallback(Controller, now, r[1], r[2]))
    /\ UNCHANGED << now, ticks, pollDue, state, sample >>

RemoveAt(s, k) == SubSeq(s, 1, k - 1) \o SubSeq(s, k + 1, Len(s))

\* Mutant of ApiResolve: the resumed handleTouch advances every cursor.
ApiResolveAll(k) ==
    /\ alive
    /\ Quiet
    /\ k \in 1 .. Len(inflight)
    /\ LET r == inflight[k]
       IN  Commit([Controller EXCEPT
                     !.inflight = RemoveAt(@, k),
                     !.logged = << r.okLog >>,
                     !.settled = << [pin |-> r.pin, index |-> r.currentIndex, ok |-> TRUE] >>,
                     !.collectionIndices =
                        [p \in RotationPins |->
                           nextIndex(@[p], Len(sceneCollections[pinToCollection[p]]))]])
    /\ emitted' = << >>
    /\ UNCHANGED << now, ticks, pollDue, state, sample >>

\* govee.controlDevice resolves: handleTouch resumes after its await.
ApiResolve(k) ==
    /\ alive
    /\ Quiet
    /\ k \in 1 .. Len(inflight)
    /\ LET r == inflight[k]
           c == [Controller EXCEPT !.inflight = RemoveAt(@, k),
                                   !.logged = << r.okLog >>,
                                   !.settled = << [pin |-> r.pin, index |-> r.currentIndex,
                                                   ok |-> TRUE] >>]
       IN  Commit(IF r.pin \in RotationPins
                  THEN [c EXCEPT !.collectionIndices[r.pin] =
                            nextIndex(r.currentIndex,
                                      Len(sceneCollections[pinToCollection[r.pin]]))]
                  ELSE c)
    /\ emitted' = << >>
    /\ UNCHANGED << now, ticks, pollDue, state, sample >>

\* Mutant of ApiReject: handleTouch has no catch, its promise rejects unhandled.
ApiRejectEscapes(k) ==
    /\ alive
    /\ k \in 1 .. Len(inflight)
    /\ Commit([Controller EXCEPT !.inflight = RemoveAt(@, k),
                                 !.logged = << "Error controlling device:" >>,
                                 !.settled = << [pin |-> inflight[k].pin,
                                                 index |-> inflight[k].currentIndex,
                                                 ok |-> FALSE] >>])
    /\ unhandled' = TRUE
    /\ alive' \in BOOLEAN
    /\ emitted' = << >>
    /\ UNCHANGED << now, ticks, pollDue, state, sample, phase, ready, timer, stopRequested,
                    thresholds, pinToCollection, sceneCollections, sceneTable, hung >>

\* Mutant of ApiReject: the failed command is sent again.
ApiRejectRetry(k) ==
    /\ alive
    /\ Quiet
    /\ k \in 1 .. Len(inflight)
    /\ Commit([Controller EXCEPT !.posted = << inflight[k].capability >>,
                                 !.logged = << "Error controlling device:" >>,
                                 !.settled = << [pin |-> inflight[k].pin,
                                                 index |-> inflight[k].currentIndex,
                                                 ok |-> FALSE] >>])
    /\ emitted' = << >>
    /\ UNCHANGED << now, ticks, pollDue, state, sample >>

\* govee.controlDevice rejects: it logs and rethrows, handleTouch catches.
ApiReject(k) ==
    /\ alive
    /\ Quiet
    /\ k \in 1 .. Len(inflight)
    /\ Commit([Controller EXCEPT !.inflight = RemoveAt(@, k),
                                 !.logged = << "Error controlling device:",
                                               "Error controlling light:" >>,
                                 !.settled = << [pin |-> inflight[k].pin,
                                                 index |-> inflight[k].currentIndex,
                                                 ok |-> FALSE] >>])
    /\ emitted' = << >>
    /\ UNCHANGED << now, ticks, pollDue, state, sample >>

\* Long runs: a few pins, an allowed and a disallowed hour.
Startup == InitDone \/ ResetDone \/ Configure

Next ==
    \/ Startup
    \/ Advance(MaxTicks)
    \/ \E word \in SpecWords : PollTick(word, SpecHours)
    \/ TimerFire(SpecHours)
    \/ \E k \in 1 .. Len(inflight) : ApiResolve(k)
    \/ \E k \in 1 .. Len(inflight) : ApiReject(k)

Spec == Init /\ [][Next]_vars

\* Short runs: every pin at every hour.  No debounce timer comes due within
\* GuardTicks intervals.
NextGuard ==
    \/ Startup
    \/ Advance(GuardTicks)
    \/ \E word \in GuardWords : PollTick(word, Hours)
    \/ \E k \in 1 .. Len(inflight) : ApiResolve(k)
    \/ \E k \in 1 .. Len(inflight) : ApiReject(k)

SpecGuard == Init /\ [][NextGuard]_vars

\* Rotation runs: one rotation pin touched again and again at an allowed hour,
\* long enough for three executions of handleTouch.
RotatePins == {4}
RotateHours == {12}
RotateWords == Masks(RotatePins)

NextRotate ==
    \/ Startup
    \/ Advance(RotateTicks)
    \/ \E word \in RotateWords : PollTick(word, RotateHours)
    \/ TimerFire(RotateHours)
    \/ \E k \in 1 .. Len(inflight) : ApiResolve(k)
    \/ \E k \in 1 .. Len(inflight) : ApiReject(k)

SpecRotate == Init /\ [][NextRotate]_vars

\* Lifecycle runs: startup with its failures, failed reads, stopPolling and
\* SIGINT at any moment, and a few polling intervals.  The thresholds and the
\* pin table are those of the source or an edited configuration.
LifePins == {4}
LifeHours == {12}
LifeWords == Masks(LifePins)
LifeThresholds == { << 10, 8 >>, << 256, 8 >>, << 10, 0 - 1 >> }
LifeTables == { PIN_TO_COLLECTION, [PIN_TO_COLLECTION EXCEPT ![4] = "SPOOKY"] }

InitLife ==
    /\ now = StartTime
    /\ ticks = 0
    /\ pollDue = FALSE
    /\ state = [i \in Pins |-> FALSE]
    /\ sample = 0
    /\ emitted = << >>
    /\ lastRun = 0
    /\ timeout = NoTimeout
    /\ collectionIndices = [p \in RotationPins |-> 0]
    /\ inflight = << >>
    /\ firstSuppressed = Never
    /\ called = << >>
    /\ executed = << >>
    /\ posted = << >>
    /\ logged = << >>
    /\ lastFire = [p \in Pins |-> Never]
    /\ lastCall = NoCall
    /\ settled = << >>
    /\ succeeded = [p \in RotationPins |-> 0]
    /\ prior = NoPrior
    /\ phase = "init"
    /\ ready = FALSE
    /\ timer = FALSE
    /\ alive = TRUE
    /\ unhandled = FALSE
    /\ stopRequested = FALSE
    /\ thresholds \in LifeThresholds
    /\ pinToCollection \in LifeTables
    /\ sceneCollections = SCENE_COLLECTIONS
    /\ sceneTable = SceneTable
    /\ history = << >>
    /\ hung = 0
    /\ unguarded = Controller

NextLife ==
    \/ Startup
    \/ ChainReject
    \/ StopPolling
    \/ Sigint
    \/ Advance(LifeTicks)
    \/ \E word \in LifeWords : PollTick(word, LifeHours)
    \/ ReadFail
    \/ ReadHang
    \/ \E k \in 1 .. Len(inflight) : ApiResolve(k)
    \/ \E k \in 1 .. Len(inflight) : ApiReject(k)

SpecLife == InitLife /\ [][NextLife]_vars

\* Runs with edited tables: the collection of pin 4 is the two scenes X and Y
\* (both in the scene table), or it is the NIGHT collection of the source with
\* a scene table that has no "Moon" or no "Moonlight".  One rotation pin, an allowed hour, long
\* enough for three executions and a deferred one.
TablePins == {4}
TableHours == {12}
TableWords == Masks(TablePins)
TwoScenes == [SCENE_COLLECTIONS EXCEPT !.NIGHT = << "X", "Y" >>]
TwoScenesTable ==
    [ n \in DOMAIN SceneTable \cup {"X", "Y"} |->
        IF n = "X" THEN 1 ELSE IF n = "Y" THEN 2 ELSE SceneTable[n] ]
MoonlessTable == [ n \in DOMAIN SceneTable \ {"Moon"} |-> SceneTable[n] ]
MoonlightlessTable == [ n \in DOMAIN SceneTable \ {"Moonlight"} |-> SceneTable[n] ]
EditedTables ==
    { [collections |-> TwoScenes, table |-> TwoScenesTable],
      [collections |-> SCENE_COLLECTIONS, table |-> MoonlessTable],
      [collections |-> SCENE_COLLECTIONS, table |-> MoonlightlessTable] }

InitTables ==
    /\ now = StartTime
    /\ ticks = 0
    /\ pollDue = FALSE
    /\ state = [i \in Pins |-> FALSE]
    /\ sample = 0
    /\ emitted = << >>
    /\ lastRun = 0
    /\ timeout = NoTimeout
    /\ collectionIndices = [p \in RotationPins |-> 0]
    /\ inflight = << >>
    /\ firstSuppressed = Never
    /\ called = << >>
    /\ executed = << >>
    /\ posted = << >>
    /\ logged = << >>
    /\ lastFire = [p \in Pins |-> Never]
    /\ lastCall = NoCall
    /\ settled = << >>
    /\ succeeded = [p \in RotationPins |-> 0]
    /\ prior = NoPrior
    /\ phase = "init"
    /\ ready = FALSE
    /\ timer = FALSE
    /\ alive = TRUE
    /\ unhandled = FALSE
    /\ stopRequested = FALSE
    /\ thresholds = << 10, 8 >>
    /\ pinToCollection = PIN_TO_COLLECTION
    /\ \E e \in EditedTables :
          /\ sceneCollections = e.collections
          /\ sceneTable = e.table
    /\ history = << >>
    /\ hung = 0
    /\ unguarded = Controller

NextTables ==
    \/ Startup
    \/ Advance(TableTicks)
    \/ \E word \in TableWords : PollTick(word, TableHours)
    \/ TimerFire(TableHours)
    \/ \E k \in 1 .. Len(inflight) : ApiResolve(k)
    \/ \E k \in 1 .. Len(inflight) : ApiReject(k)

SpecTables == InitTables /\ [][NextTables]_vars

\* Runs with fair scheduling: the interval and the debounce timer fire and
\* reads complete.  Touches arrive during the first LiveTicks intervals; after
\* that the polling goes on without a new touch until a pending debounce timer
\* has fired.  The two pins have no case in handleTouch, so that an execution
\* leaves no request behind and the runs are those of the debounce alone.
LivePins == {10, 11}
LiveHours == {12}
LiveHorizon ==
    IF timeout.armed THEN LiveTicks + (TOUCH_DEBOUNCE_MS \div DefaultInterval) ELSE LiveTicks
LiveWords ==
    IF ticks <= LiveTicks THEN Masks(LivePins)
    ELSE { w \in Masks(LivePins) : \A c \in Pins : current(touched(w), c) => state[c] }

NextLive ==
    \/ Startup
    \/ Advance(LiveHorizon)
    \/ \E word \in LiveWords : PollTick(word, LiveHours)
    \/ TimerFire(LiveHours)

SpecLive ==
    /\ Init /\ [][NextLive]_vars
    /\ WF_vars(Startup)
    /\ WF_vars(Advance(LiveHorizon))
    /\ WF_vars(\E word \in LiveWords : PollTick(word, LiveHours))
    /\ WF_vars(TimerFire(LiveHours))

\* Paired runs: the guarded controller of part_002 and the unguarded one of
\* src/index.js receive the same 'touch' events at the same times, their
\* debounce timers fire in the same step and their requests are answered alike,
\* in the order they were posted.  Every allowed hour; the first touch that is
\* executed is on any pin but 1, the touches after it are on one rotation pin.
PairPins == Pins \ {1}
PairLaterPins == {4}
PairHours == ALLOWED_START_HOUR .. (ALLOWED_END_HOUR - 1)
PairWords ==
    IF lastRun = 0 THEN {0} \cup { Pow2(p) : p \in PairPins }
    ELSE Masks(PairLaterPins)

\* The interval callback of both programs reads the same word.
PairPollTick(word, H) ==
    /\ alive
    /\ pollDue
    /\ Quiet
    /\ pollDue' = FALSE
    /\ \E u \in { updateState(state, touched(word)) } :
          LET ps == { u.emitted[i].pin :
                        i \in { j \in 1 .. Len(u.emitted) : u.emitted[j].name = "touch" } }
          IN  /\ sample' = touched(word)
              /\ state' = u.state
              /\ emitted' = u.emitted
              /\ \E r \in Reads(ps, now, H) :
                    CommitBoth(deliver(Controller, u.emitted, now, r[1], r[2]),
                               deliverU(Unguarded, u.emitted, now))
    /\ UNCHANGED << now, ticks >>

\* The debounce timers of both programs fire.
PairTimerFire(H) ==
    /\ alive
    /\ TimerOverdue
    /\ Quiet
    /\ emitted' = << >>
    /\ \E r \in Reads({timeout.pin}, now, H) :
          CommitBoth(timeoutCallback(Controller, now, r[1], r[2]),
                     timeoutCallbackU(Unguarded, now))
    /\ UNCHANGED << now, ticks, pollDue, state, sample >>

\* The k-th pending request of both programs resolves.
PairApiResolve(k) ==
    /\ alive
    /\ Quiet
    /\ k \in 1 .. Len(inflight)
    /\ LET r == inflight[k]
           c == [Controller EXCEPT !.inflight = RemoveAt(@, k),
                                   !.logged = << r.okLog >>,
                                   !.settled = << [pin |-> r.pin, index |-> r.currentIndex,
                                                   ok |-> TRUE] >>]
       IN  CommitBoth(IF r.pin \in RotationPins
                      THEN [c EXCEPT !.collectionIndices[r.pin] =
                                nextIndex(r.currentIndex,
                                          Len(sceneCollections[pinToCollection[r.pin]]))]
                      ELSE c,
                      resolveU(Unguarded, k))
    /\ emitted' = << >>
    /\ UNCHANGED << now, ticks, pollDue, state, sample >>

\* The k-th pending request of both programs rejects.
PairApiReject(k) ==
    /\ alive
    /\ Quiet
    /\ k \in 1 .. Len(inflight)
    /\ CommitBoth([Controller EXCEPT !.inflight = RemoveAt(@, k),
                                     !.logged = << "Error controlling device:",
                                                   "Error controlling light:" >>,
                                     !.settled = << [pin |-> inflight[k].pin,
                                                     index |-> inflight[k].currentIndex,
                                                     ok |-> FALSE] >>],
                  rejectU(Unguarded, k))
    /\ emitted' = << >>
    /\ UNCHANGED << now, ticks, pollDue, state, sample >>

NextPair ==
    \/ Startup
    \/ Advance(PairTicks)
    \/ \E word \in PairWords : PairPollTick(word, PairHours)
    \/ PairTimerFire(PairHours)
    \/ \E k \in 1 .. Len(inflight) : PairApiResolve(k)
    \/ \E k \in 1 .. Len(inflight) : PairApiReject(k)

SpecPair == Init /\ [][NextPair]_vars

(***************************************************************************)
(* Properties                                                              *)
(***************************************************************************)
W == TOUCH_DEBOUNCE_MS

\* bit c of a 12-bit sample
SampleBit(m, c) == (m \div Pow2(c)) % 2 = 1

\* the 'touch' and 'release' events of channel c among evs
EdgeEventsOf(evs, c) ==
    SelectSeq(evs, LAMBDA e : e.pin = c /\ e.name \in {"touch", "release"})

\* time of the latest execution of handleTouch, for any pin, in earlier steps
LastFireAny ==
    CHOOSE t \in { lastFire[p] : p \in Pins } : \A p \in Pins : lastFire[p] <= t

\* the hour lies in the allowed period
InAllowedHours(h) == 8 <= h /\ h < 20

PowerOff == [type |-> "devices.capabilities.on_off", instance |-> "powerSwitch", value |-> 0]

IgnoredLines ==
    { "Light turn on request ignored - outside allowed time period",
      "Random scene request ignored - outside allowed time period",
      "Brightness change request ignored - outside allowed time period",
      "Scene change request ignored - outside allowed time period" }

\* C1: a polling tick emits, for every channel, exactly one edge event when the
\* sample bit differs from the stored state ('touch' on 0->1, 'release' on
\* 1->0) and no edge event when the bit is unchanged.
C1_EdgeEvents ==
    [][ (pollDue /\ ~pollDue') =>
          \A ch \in Pins :
             EdgeEventsOf(emitted', ch) =
                IF state[ch] = SampleBit(sample', ch) THEN << >>
                ELSE << [name |-> IF SampleBit(sample', ch) THEN "touch" ELSE "release",
                         pin |-> ch, value |-> SampleBit(sample', ch)] >> ]_vars

\* C1 witness: one tick released a pin and touched another one.
C1_Witness ==
    \E a, b \in Pins :
       /\ a # b
       /\ EdgeEventsOf(emitted, a) = << [name |-> "release", pin |-> a, value |-> FALSE] >>
       /\ EdgeEventsOf(emitted, b) = << [name |-> "touch", pin |-> b, value |-> TRUE] >>
       /\ SampleBit(sample, b) /\ ~SampleBit(sample, a)

\* C2: a call of the debounced handler with now - lastRun >= window, the very
\* first call included, runs handleTouch in the same step with the call's pin
\* and sets lastRun to now.
C2_ImmediateBranch ==
    /\ \A i \in DOMAIN called :
          called[i].at - called[i].lastRun >= W =>
             /\ \E j \in DOMAIN executed :
                   /\ executed[j].pin = called[i].pin
                   /\ executed[j].at = called[i].at
                   /\ executed[j].via = "immediate"
             /\ called[i].at = now
             /\ lastRun = now
    /\ (lastCall = NoCall /\ called # << >>) =>
          /\ executed # << >>
          /\ executed[1].pin = called[1].pin
          /\ executed[1].via = "immediate"

\* C2 witness: a later call, a full window after the previous execution, ran
\* at once.
C2_Witness ==
    /\ called # << >> /\ executed # << >>
    /\ called[1].lastRun > 0
    /\ called[1].at - called[1].lastRun = W
    /\ executed[1].via = "immediate" /\ executed[1].pin = called[1].pin
    /\ lastRun = now

\* C3 as claimed: the deferred execution happens at lastFire + window, not
\* moved by later suppressed calls.
C3_DeferredAtLastFirePlusWindow ==
    \A j \in DOMAIN executed :
       executed[j].via = "deferred" => executed[j].at = LastFireAny + W

\* the time of the most recent call of the debounced handler
LatestCallAt == IF called # << >> THEN called[Len(called)].at ELSE lastCall.at

\* C3 amended: suppressed calls are coalesced into one pending timer that is
\* due one window after the MOST RECENT suppressed call (every suppressed
\* call restarts it), and the deferred execution happens then, once.
C3_DeferredAfterLatestCall ==
    /\ timeout.armed => timeout.due = LatestCallAt + W
    /\ \A i \in DOMAIN called :
          (i = Len(called) /\ called[i].at - called[i].lastRun < W) =>
             timeout.armed /\ timeout.due = called[i].at + W
    /\ \A j \in DOMAIN executed :
          executed[j].via = "deferred" =>
             /\ executed[j].at = lastCall.at + W
             /\ executed[j].at >= LastFireAny + W
             /\ Len(executed) = 1
             /\ ~timeout.armed

\* C3 witness: fire at t0, last suppressed call at t0 + 200, deferred
\* execution at t0 + 1200.
C3_Witness ==
    /\ executed # << >>
    /\ executed[1].via = "deferred"
    /\ lastCall.at = LastFireAny + 2 * DefaultInterval
    /\ executed[1].at = LastFireAny + 2 * DefaultInterval + W

\* C4 as claimed: a call for a channel whose own last execution is at least
\* one window old (or that never executed) is executed at once, whatever the
\* other channels did.
C4_PerChannelDebounce ==
    \A i \in DOMAIN called :
       (lastFire[called[i].pin] = Never \/ called[i].at - lastFire[called[i].pin] >= W) =>
          \E j \in DOMAIN executed :
             executed[j].pin = called[i].pin /\ executed[j].via = "immediate"

\* C4 amended: the debounce state is one record shared by all channels: a
\* call less than one window after the last execution for ANY channel is not
\* executed but deferred, also when its own channel never executed.
C4_SharedDebounce ==
    /\ Len(executed) <= 1
    /\ \A i \in DOMAIN called :
          (LastFireAny # Never /\ called[i].at - LastFireAny < W) =>
             /\ executed = << >>
             /\ timeout.armed
             /\ timeout.due = called[i].at + W
             /\ i = Len(called) => timeout.pin = called[i].pin

\* C4 witness: a touch on a channel that never executed is deferred because
\* another channel executed less than a window ago.
C4_Witness ==
    /\ Len(called) = 1 /\ executed = << >>
    /\ lastFire[called[1].pin] = Never
    /\ LastFireAny # Never /\ now - LastFireAny < W
    /\ timeout.armed /\ timeout.pin = called[1].pin

\* C5: a deferred execution runs handleTouch with the pin of the most recent
\* call of the debounced handler.
C5_LastCallWins ==
    \A j \in DOMAIN executed :
       executed[j].via = "deferred" => executed[j].pin = lastCall.pin

\* C5 witness: suppressed calls for two different pins were coalesced and the
\* deferred execution ran with the pin of the last one, not of the first.
C5_Witness ==
    /\ executed # << >>
    /\ executed[1].via = "deferred"
    /\ executed[1].first # Never
    /\ executed[1].first # executed[1].pin
    /\ executed[1].pin = lastCall.pin

\* C6: any two consecutive executions of handleTouch, immediate or deferred,
\* are at least the debounce window apart.
C6_MinSpacing ==
    /\ Len(executed) <= 1
    /\ \A j \in DOMAIN executed :
          LastFireAny # Never => executed[j].at - LastFireAny >= W

\* C6 witness: an execution exactly one window after the previous one.
C6_Witness ==
    /\ executed # << >>
    /\ LastFireAny # Never
    /\ executed[1].at - LastFireAny = W

\* C7: for every hour h in 0..23 the time guard evaluates to true iff
\* 8 <= h < 20; on the guarded simple commands (pins 0..3) a request is posted
\* exactly then.
C7_TimeGuard ==
    \A j \in DOMAIN executed :
       /\ executed[j].hour \in Hours
       /\ executed[j].pin # TurnOffPin =>
             (executed[j].can <=> InAllowedHours(executed[j].hour))
       /\ executed[j].pin \in 0 .. 3 =>
             ((posted # << >>) <=> InAllowedHours(executed[j].hour))

\* C7 witness: a guarded touch handled at hour 20 is refused.
C7_Witness ==
    /\ executed # << >>
    /\ executed[1].pin = 0 /\ executed[1].hour = 20
    /\ ~executed[1].can /\ posted = << >>

C9_GuardedNoOp ==
    [][ \A j \in DOMAIN executed' :
           (executed'[j].pin \in 0 .. 8 /\ ~InAllowedHours(executed'[j].hour)) =>
              /\ posted' = << >>
              /\ collectionIndices' = collectionIndices
              /\ inflight' = inflight
              /\ Len(logged') = 1
              /\ logged'[1] \in IgnoredLines
              /\ \A k \in DOMAIN inflight : inflight[k].okLog # logged'[1] ]_vars

\* C9 witness: a rotation pin handled at hour 23 was ignored and logged.
C9_Witness ==
    /\ executed # << >>
    /\ executed[1].pin \in RotationPins /\ executed[1].hour = 23
    /\ posted = << >>
    /\ logged = << "Scene change request ignored - outside allowed time period" >>

ScenesOf(p) == SCENE_COLLECTIONS[PIN_TO_COLLECTION[p]]

\* the scene command for index i of the collection of rotation pin p
SceneCommand(p, i) ==
    [type |-> "devices.capabilities.dynamic_scene", instance |-> "lightScene",
     value |-> SCENES(ScenesOf(p)[i + 1])]

\* the executions of the last step that dispatched a scene for a rotation pin
Dispatches ==
    { j \in DOMAIN executed : executed[j].pin \in RotationPins /\ executed[j].can }

\* C11 as claimed: the k-th scene command of a rotation pin that the API
\* accepted carried the scene at index (k - 1) mod L of the pin's collection.
C11_RotationSequence ==
    \A i \in DOMAIN settled :
       (settled[i].ok /\ settled[i].pin \in RotationPins) =>
          settled[i].index = (succeeded[settled[i].pin] - 1) % Len(ScenesOf(settled[i].pin))

\* C12: an execution of handleTouch for a rotation pin that the time guard
\* blocks leaves the pin's cursor and the pending requests as they were; every
\* allowed execution sends the scene at the cursor; so the allowed dispatch
\* that follows a blocked touch sends the scene at the cursor the blocked
\* touch found.
C12_BlockedKeepsCursor ==
    [][ /\ \A j \in DOMAIN executed' :
              (executed'[j].pin \in RotationPins /\ ~executed'[j].can) =>
                 /\ collectionIndices' = collectionIndices
                 /\ inflight' = inflight
                 /\ posted' = << >>
        /\ \A j \in DOMAIN executed' :
              (executed'[j].pin \in RotationPins /\ executed'[j].can) =>
                 /\ posted' = << SceneCommand(executed'[j].pin,
                                              collectionIndices[executed'[j].pin]) >>
                 /\ (prior.kind = "blocked" /\ prior.pin = executed'[j].pin) =>
                       posted' = << SceneCommand(prior.pin, prior.index) >> ]_vars

\* C12 witness: a touch on pin 4 was blocked by the guard and the allowed
\* dispatch after it has sent the scene at the cursor the blocked touch found.
C12_Witness ==
    /\ Dispatches # {}
    /\ executed[1].pin = 4
    /\ prior = [pin |-> 4, kind |-> "blocked", index |-> collectionIndices[4]]
    /\ posted = << SceneCommand(4, prior.index) >>

\* C13 as claimed: a rejected scene command leaves the cursor of its pin
\* unchanged, and the next dispatch on that pin sends the rejected scene again.
C13_FailedDispatchResent ==
    /\ [][ \A i \in DOMAIN settled' :
              ~settled'[i].ok => collectionIndices' = collectionIndices ]_vars
    /\ [] \A j \in Dispatches :
             (prior.kind = "rejected" /\ prior.pin = executed[j].pin) =>
                posted = << SceneCommand(prior.pin, prior.index) >>

\* C14 as claimed: after n accepted scene commands of a rotation pin its cursor
\* is n mod L, whatever the interleaving of executions and API responses.
C14_CursorCountsSuccesses ==
    \A p \in RotationPins : collectionIndices[p] = succeeded[p] % Len(ScenesOf(p))

\* C15 as claimed: every cursor stays in [0, L) and a step changes it only by
\* +1 or by wrapping from L - 1 to 0.
C15_CursorRangeAndStep ==
    /\ [] \A p \in RotationPins : collectionIndices[p] \in 0 .. (Len(ScenesOf(p)) - 1)
    /\ [][ \A p \in RotationPins :
              \/ collectionIndices'[p] = collectionIndices[p]
              \/ collectionIndices'[p] = (collectionIndices[p] + 1) % Len(ScenesOf(p)) ]_vars

\* C16: an execution of handleTouch for a pin with no action (10 and 11) posts
\* no command, writes no console line, not even an error line, and leaves the
\* cursors and the pending requests as they were.
C16_UnmappedNoOp ==
    [][ \A j \in DOMAIN executed' :
           executed'[j].pin \in {10, 11} =>
              /\ posted' = << >>
              /\ logged' = << >>
              /\ settled' = << >>
              /\ collectionIndices' = collectionIndices
              /\ inflight' = inflight ]_vars

\* C16 witness: a touch on pin 11 was handled and nothing was sent or logged.
C16_Witness ==
    /\ executed # << >>
    /\ executed[1].pin = 11
    /\ emitted # << >> /\ emitted[1].name = "touch"
    /\ posted = << >> /\ logged = << >>

\* C18: a command is posted only by an execution of handleTouch, one command
\* per execution at most, and an execution is started only by a 'touch' event
\* or by the debounce timer a 'touch' event armed; the step in which a request
\* fails posts nothing, arms no timer and leaves no request pending for it.
C18_NoRetry ==
    [][ /\ Len(posted') <= Len(executed')
        /\ \A j \in DOMAIN executed' :
              \/ /\ executed'[j].via = "immediate"
                 /\ \E i \in DOMAIN emitted' :
                       emitted'[i].name = "touch" /\ emitted'[i].pin = executed'[j].pin
              \/ /\ executed'[j].via = "deferred"
                 /\ timeout.armed /\ timeout.pin = executed'[j].pin
        /\ \A i \in DOMAIN settled' :
              ~settled'[i].ok =>
                 /\ posted' = << >>
                 /\ executed' = << >>
                 /\ timeout' = timeout
                 /\ Len(inflight') = Len(inflight) - 1 ]_vars

\* C18 witness: the only pending request has failed; nothing is posted and
\* nothing is pending.
C18_Witness ==
    /\ settled # << >> /\ ~settled[1].ok
    /\ posted = << >> /\ inflight = << >> /\ ~timeout.armed
    /\ logged = << "Error controlling device:", "Error controlling light:" >>

\* an 'error' event reached the listener of the main program in the last step
ErrorReported == \E i \in DOMAIN emitted : emitted[i].name = "error"

\* C17 as claimed: a tick whose read fails changes no touch state and emits no
\* edge event, the failure is delivered to the 'error' listener, and polling
\* goes on.
C17_ReadFailureReported ==
    [][ unhandled' =>
          /\ state' = state
          /\ \A ch \in Pins : EdgeEventsOf(emitted', ch) = << >>
          /\ \E i \in DOMAIN emitted' : emitted'[i].name = "error"
          /\ alive' /\ timer' ]_vars

\* C19 as claimed: once stopPolling has been called, at whatever point of the
\* lifecycle, no polling interval is set and no tick is due.
C19_NoTickAfterStop ==
    stopRequested => (~timer /\ ~pollDue)

\* a configuration error: startup failed, a threshold is outside 0..255, or a
\* pin is assigned to a collection that does not exist
ConfigError ==
    \/ phase = "failed"
    \/ setThresholds(thresholds[1], thresholds[2]) = "rejected"
    \/ \E p \in RotationPins : pinToCollection[p] \notin DOMAIN SCENE_COLLECTIONS

SceneSet(name) ==
    [type |-> "devices.capabilities.dynamic_scene", instance |-> "lightScene",
     value |-> IF name \in DOMAIN sceneTable THEN sceneTable[name] ELSE 0]

\* C21 as claimed: with pin 4 mapped to the collection [X, Y] and the guard
\* allowing, two touches 1100 ms apart dispatch X and then Y, and a third
\* touch inside the window of the second is not executed at once; its one
\* deferred execution comes at the expiry of that window and dispatches X
\* again.
C21_EndToEnd ==
    (sceneCollections = TwoScenes /\ Len(history) >= 2
       /\ history[2].at = history[1].at + 1100) =>
          /\ history[1].sent = << SceneSet("X") >>
          /\ history[2].sent = << SceneSet("Y") >>
          /\ (Len(history) = 2 /\ called # << >> /\ called[1].at < history[2].at + W
                /\ called[1].at > history[2].at) =>
                /\ executed = << >>
                /\ timeout.armed
          /\ (Len(history) = 3 /\ executed # << >> /\ history[3].via = "deferred") =>
                /\ history[3].at = history[2].at + W
                /\ history[3].sent = << SceneSet("X") >>

\* C22: the stored state of every channel equals its bit of the latest sample;
\* isTouched(i) becomes true with a 'touch' of channel i, false with a
\* 'release', and keeps its value in a step with no edge event of channel i;
\* it is false while the sensor is not ready and for a pin outside 0..11.
C22_IsTouched ==
    /\ [] /\ \A i \in Pins : state[i] = SampleBit(sample, i)
          /\ \A i \in Pins : isTouched(state, ready, i) = (ready /\ SampleBit(sample, i))
          /\ ~isTouched(state, ready, 0 - 1) /\ ~isTouched(state, ready, NumPins)
          /\ ~ready => \A i \in Pins : ~isTouched(state, ready, i)
    /\ [][ \A i \in Pins :
              IF EdgeEventsOf(emitted', i) = << >>
              THEN isTouched(state', ready', i) = isTouched(state, ready, i)
              ELSE isTouched(state', ready', i) = (EdgeEventsOf(emitted', i)[1].name = "touch")
         ]_vars

\* C22 witness: a tick touched one pin and released another; isTouched tells
\* them apart and is false outside 0..11.
C22_Witness ==
    \E a, b \in Pins :
       /\ EdgeEventsOf(emitted, a) # << >> /\ EdgeEventsOf(emitted, a)[1].name = "release"
       /\ EdgeEventsOf(emitted, b) # << >> /\ EdgeEventsOf(emitted, b)[1].name = "touch"
       /\ isTouched(state, ready, b) /\ ~isTouched(state, ready, a)
       /\ ~isTouched(state, ready, NumPins)

\* C23 as claimed: no two requests of the same pin are awaited at the same
\* time.
C23_NoOverlap ==
    \A i, j \in DOMAIN inflight :
       i # j => inflight[i].pin # inflight[j].pin

\* C24: the step in which a request fails writes the two error lines and
\* nothing else happens: no rejection is left unhandled, the process lives,
\* the polling timer, the touch state and the debounce record are untouched;
\* no step of the handlers ever leaves an unhandled rejection.
C24_NoErrorEscapes ==
    /\ [] (alive /\ ~unhandled)
    /\ [][ \A i \in DOMAIN settled' :
              ~settled'[i].ok =>
                 /\ logged' = << "Error controlling device:", "Error controlling light:" >>
                 /\ ~unhandled' /\ alive'
                 /\ timer' = timer /\ pollDue' = pollDue /\ state' = state
                 /\ lastRun' = lastRun /\ timeout' = timeout ]_vars

\* C24 witness: after a request of pin 4 failed, a later touch was handled and
\* its command posted.
C24_Witness ==
    /\ prior.kind = "rejected" /\ prior.pin = 4
    /\ executed # << >> /\ executed[1].via = "immediate"
    /\ posted # << >>
    /\ alive /\ ~unhandled /\ timer

\* the 'touch' and 'release' events among evs, in emission order
EdgeEvents(evs) == SelectSeq(evs, LAMBDA e : e.name \in {"touch", "release"})

\* the 'touch' events among evs, in emission order
TouchEvents(evs) == SelectSeq(evs, LAMBDA e : e.name = "touch")

\* C25: the edge events of one tick are emitted in ascending pin order, and the
\* debounced handler is called once per 'touch' event, in that same order.
C25_AscendingOrder ==
    /\ \A i, j \in DOMAIN EdgeEvents(emitted) :
          i < j => EdgeEvents(emitted)[i].pin < EdgeEvents(emitted)[j].pin
    /\ Len(called) = Len(TouchEvents(emitted))
    /\ \A k \in DOMAIN called : called[k].pin = TouchEvents(emitted)[k].pin

\* C25 witness: a tick found all twelve pins touched and the handler was
\* called for pin 0, 1, ..., 11 in that order.
C25_Witness ==
    /\ Len(called) = NumPins
    /\ \A k \in DOMAIN called : called[k].pin = k - 1
    /\ Len(EdgeEvents(emitted)) = NumPins

\* C26: a sampling read or a dispatch that never completes does not stop
\* sampling.  While the process runs and polling is active, the next interval
\* can elapse whatever reads and dispatches are pending, every interval that
\* elapses starts a read, and a read that completes is compared with the
\* stored state and produces its edge events.
C26_TickIndependence ==
    /\ [] ((alive /\ phase = "started" /\ ~pollDue /\ ~TimerOverdue /\ ticks < LifeTicks)
              => ENABLED Advance(LifeTicks))
    /\ [] ((alive /\ pollDue) => ENABLED PollTick(0, LifeHours))
    /\ [][ (ticks' = ticks + 1 /\ timer) => pollDue' ]_vars
    /\ [][ (pollDue /\ ~pollDue' /\ alive' /\ ~unhandled' /\ hung' = hung /\ timer') =>
              /\ \A c \in Pins : state'[c] = SampleBit(sample', c)
              /\ \A c \in Pins : (state'[c] # state[c]) <=> EdgeEventsOf(emitted', c) # << >> ]_vars

\* C26 witness: a tick produces an edge event and calls the handler while an
\* earlier read and an earlier dispatch are still pending.
C26_Witness ==
    /\ hung > 0
    /\ inflight # << >>
    /\ emitted # << >>
    /\ \E i \in DOMAIN emitted : emitted[i].name = "release"
    /\ ticks = 3

\* the pins of the calls of the debounced handler in calls
CalledPins(calls) == { calls[i].pin : i \in DOMAIN calls }

\* C27: debounce liveness.  The last call of a step is either executed at once
\* with its own pin or leaves the timer armed for its own pin, one window
\* later; an armed timer goes away or changes only with a deferred execution
\* for its pin, with an immediate execution for a later call, or because a
\* later call replaced it; and with timers firing every call and every armed
\* timer is eventually followed by an execution.
C27_DebounceLiveness ==
    /\ [] (called # << >> =>
             LET last == called[Len(called)]
             IN  \/ /\ ~timeout.armed
                    /\ executed # << >>
                    /\ executed[Len(executed)].pin = last.pin
                    /\ executed[Len(executed)].via = "immediate"
                    /\ executed[Len(executed)].at = last.at
                 \/ /\ timeout.armed
                    /\ timeout.pin = last.pin
                    /\ timeout.due = last.at + W)
    /\ [][ (timeout.armed /\ timeout' # timeout) =>
              \/ /\ executed' # << >>
                 /\ executed'[1].via = "deferred"
                 /\ executed'[1].pin = timeout.pin
                 /\ called' = << >>
              \/ /\ executed' # << >>
                 /\ executed'[1].via = "immediate"
                 /\ executed'[1].pin \in CalledPins(called')
              \/ /\ called' # << >>
                 /\ timeout'.armed
                 /\ timeout'.pin = called'[Len(called')].pin ]_vars
    /\ (called # << >> \/ timeout.armed) ~> (executed # << >>)

\* C27 witness: a call for pin 10 is executed at once and drops the timer that
\* an earlier, suppressed call for pin 11 had left pending.
C27_Witness ==
    /\ executed # << >>
    /\ executed[1].via = "immediate"
    /\ executed[1].pin = 10
    /\ executed[1].first = 11
    /\ ~timeout.armed

\* C28: every execution of handleTouch records lastRun, whatever becomes of
\* it.  lastRun is the time of the latest execution (blocked, sent, failed or
\* without a case); a later call in the same tick already sees it; a request
\* that settles leaves it alone; and a call less than a window after the
\* latest execution is not executed but arms the timer.
C28_LastRunAlwaysRecorded ==
    /\ [] (lastRun = IF executed # << >> THEN now
                     ELSE IF LastFireAny = Never THEN 0 ELSE LastFireAny)
    /\ [] (executed # << >> =>
             \A i \in DOMAIN called : i > 1 => called[i].lastRun = now)
    /\ [] (\A i \in DOMAIN called :
             (LastFireAny # Never /\ called[i].at - LastFireAny < W) =>
                /\ executed = << >>
                /\ timeout.armed)
    /\ [][ settled' # << >> => lastRun' = lastRun ]_vars

\* C28 witness: the touch on pin 10, which has no case, was executed one
\* interval ago and sent nothing; the touch that follows is not executed.
C28_Witness ==
    /\ Len(history) = 1
    /\ history[1].pin = 10 /\ history[1].sent = << >>
    /\ lastFire[10] = now - DefaultInterval
    /\ lastRun = lastFire[10]
    /\ called # << >> /\ executed = << >>
    /\ timeout.armed

\* the scene at the cursor of rotation pin p has no identifier in the table
AtMissingScene(p) ==
    sceneIdOf(Controller,
              sceneCollections[pinToCollection[p]][collectionIndices[p] + 1]) = 0

\* C29: when the scene at the cursor of a rotation channel has no identifier,
\* a handled touch on the channel sends nothing, logs nothing and leaves the
\* cursor, and the cursor stays at that entry from then on, so that every
\* later touch meets the same entry.
C29_MissingSceneStalls ==
    /\ [][ \A j \in DOMAIN executed' :
              (executed'[j].pin \in RotationPins /\ AtMissingScene(executed'[j].pin)) =>
                 /\ posted' = << >>
                 /\ logged' = << >>
                 /\ inflight' = inflight
                 /\ collectionIndices' = collectionIndices ]_vars
    /\ [][ \A p \in RotationPins :
              AtMissingScene(p) => collectionIndices'[p] = collectionIndices[p] ]_vars

\* C30: handling a touch on rotation channel c changes at most
\* collectionIndices[c], and handling a touch on any other channel changes no
\* cursor.  The part of handleTouch that runs with the touch changes no cursor
\* at all; the part that runs when the request of channel c is answered
\* changes the cursor of c only; and no cursor is ever created for a channel
\* outside 4..8.
C30_CursorFrame ==
    /\ [] (DOMAIN collectionIndices = RotationPins)
    /\ [][ executed' # << >> => collectionIndices' = collectionIndices ]_vars
    /\ [][ \A p \in RotationPins :
              collectionIndices'[p] # collectionIndices[p] =>
                 /\ settled' # << >>
                 /\ \A i \in DOMAIN settled' : settled'[i].pin = p /\ settled'[i].ok ]_vars
    /\ [][ \A i \in DOMAIN settled' :
              settled'[i].pin \notin RotationPins =>
                 collectionIndices' = collectionIndices ]_vars

\* C30 witness: the request of a touch on pin 5 was answered; the cursor of
\* pin 5 moved and the cursors of pins 4, 6, 7 and 8 did not.
C30_Witness ==
    /\ settled # << >>
    /\ settled[1].pin = 5 /\ settled[1].ok
    /\ collectionIndices[5] = 1
    /\ \A p \in RotationPins \ {5} : collectionIndices[p] = 0
    /\ lastFire[5] # Never

\* C31: while every hour read lies in [8, 20) and pin 1 is not touched, the
\* guarded controller and the unguarded controller of src/index.js, fed the
\* same events with the same API outcomes, post the same commands in every
\* step and hold equal cursors after every step.
C31_GuardedEqualsUnguarded ==
    /\ unguarded.posted = posted
    /\ unguarded.collectionIndices = collectionIndices

\* C31 witness: at hour 8 the second execution of both controllers posted the
\* second scene of a collection, after the first one had been answered.
C31_Witness ==
    /\ executed # << >>
    /\ executed[1].hour = ALLOWED_START_HOUR
    /\ executed[1].pin = 4
    /\ unguarded.executed # << >> /\ unguarded.executed[1].pin = 4
    /\ collectionIndices[4] = 1 /\ unguarded.collectionIndices[4] = 1
    /\ posted = << SceneCommand(4, 1) >>
    /\ unguarded.posted = posted

====
